---- MODULE Spec2Model ----
(***************************************************************************)
(* Model of disintegrate's TestHarness (src/disintegrate/src/testing.rs):  *)
(* the Given -> When -> Then protocol for testing a Decision.              *)
(*                                                                         *)
(* Every harness instance ("run") is a small sequential process.  The body *)
(* of `when` is split at its calls into the collaborators (state_query,    *)
(* mutate_all, process) so that the order of those calls is observable;    *)
(* each run records the calls it makes in trace[r], as a mock would.       *)
(***************************************************************************)
EXTENDS Integers, Sequences, FiniteSets, TLC

VARIABLES
    pc,        \* pc[r]: position of run r in the given/when/then chain
    history,   \* TestHarnessStep.history
    decision,  \* the decision moved into `when`
    state,     \* local `state` of `when`: the accumulator (state part)
    idx,       \* position of the enumerate() iterator of `when` (0-based)
    result,    \* When.result
    trace      \* calls made by run r, in order

vars == <<pc, history, decision, state, idx, result, trace>>

----------------------------------------------------------------------------
(* Bounds *)

MaxLen == 2        \* longest history supplied to given
MaxOut == 2        \* longest expected sequence supplied to then

Runs == {1, 2}     \* harness instances (the second is used by SpecPair only)

Events == {"a", "b"}          \* event values
Errors == {"e1", "e2"}        \* decision-domain error values

RECURSIVE SeqsUpTo(_, _)
SeqsUpTo(S, n) ==
    IF n = 0 THEN {<<>>}
    ELSE LET shorter == SeqsUpTo(S, n - 1)
         IN  shorter \cup {Append(s, e) : s \in {t \in shorter : Len(t) = n - 1}, e \in S}

Histories == SeqsUpTo(Events, MaxLen)
Expectations == SeqsUpTo(Events, MaxOut)

----------------------------------------------------------------------------
(* Result<Vec<R>, ERR> *)

Ok(events) == [tag |-> "Ok", events |-> events, error |-> "-"]
Err(error) == [tag |-> "Err", events |-> <<>>, error |-> error]
NoResult == [tag |-> "None", events |-> <<>>, error |-> "-"]

\* derived PartialEq of Vec<R>: mutant that compares element sets only
VecEqUnordered(a, b) ==
    /\ Len(a) = Len(b)
    /\ {a[i] : i \in 1..Len(a)} = {b[i] : i \in 1..Len(b)}

\* PartialEq of Vec<R>: same length and pairwise equal elements
VecEq(a, b) ==
    /\ Len(a) = Len(b)
    /\ \A i \in 1..Len(a) : a[i] = b[i]

\* PartialEq of Result as used by assert_eq!: same variant, equal payload
ResultEq(a, b) ==
    /\ a.tag = b.tag
    /\ IF a.tag = "Ok" THEN VecEq(a.events, b.events) ELSE a.error = b.error

----------------------------------------------------------------------------
(* Collaborators: PersistedEvent, state query, accumulator, decision *)

PersistedEvent(id, event) == [id |-> id, event |-> event]

\* A sub-state of the accumulator: the variants it is interested in, the id
\* of the last event applied, the number of events applied, the inner
\* projection (the events folded so far) and the persisted events seen.
SubState(interest, items) ==
    [interest |-> interest, version |-> 0, applied |-> 0,
     inner |-> items, seen |-> <<>>]

\* The decisions under test.  query: the sub-states the decision asks for,
\* as <<interest, initial items>> pairs.
Decisions ==
    { [kind |-> "mock_ok",  out |-> <<>>,          err |-> "-",
       query |-> << <<{"a", "b"}, <<>>>> >>],
      [kind |-> "mock_ok",  out |-> <<"a", "b">>,  err |-> "-",
       query |-> << <<{"a", "b"}, <<"b">>>> >>],
      [kind |-> "mock_err", out |-> <<>>,          err |-> "e1",
       query |-> << <<{"a", "b"}, <<>>>> >>],
      [kind |-> "add_item", out |-> <<"a">>,       err |-> "e1",
       query |-> << <<{"a", "b"}, <<>>>> >>],
      [kind |-> "withdraw", out |-> <<"b">>,       err |-> "e2",
       query |-> << <<{"a"}, <<>>>>, <<{"b"}, <<>>>> >>],
      [kind |-> "audit",    out |-> <<"b", "a">>,  err |-> "e2",
       query |-> << <<{"a", "b"}, <<>>>>, <<{"a"}, <<>>>>, <<{}, <<"a">>>> >>] }

NoDecision == [kind |-> "none", out |-> <<>>, err |-> "-", query |-> <<>>]

\* decision.state_query()
StateQuery(d) == d.query

\* query.into_state_part(): a fresh accumulator, one sub-state per query part
IntoStatePart(q) == [i \in 1..Len(q) |-> SubState(q[i][1], q[i][2])]

\* sub-state.mutate_part(event)
MutatePart(s, pe) ==
    [s EXCEPT !.version = pe.id,
              !.applied = @ + 1,
              !.inner = Append(@, pe.event),
              !.seen = Append(@, <<pe.id, pe.event>>)]

\* mutant: single dispatch, only the first interested sub-state applies it
MutateAllFirstOnly(acc, pe) ==
    [i \in 1..Len(acc) |->
        IF /\ pe.event \in acc[i].interest
           /\ \A j \in 1..(i - 1) : pe.event \notin acc[j].interest
        THEN MutatePart(acc[i], pe) ELSE acc[i]]

\* mutant: every sub-state applies the event, interested or not
MutateAllEvery(acc, pe) == [i \in 1..Len(acc) |-> MutatePart(acc[i], pe)]

\* accumulator.mutate_all(event): every interested sub-state applies it
MutateAll(acc, pe) ==
    [i \in 1..Len(acc) |->
        IF pe.event \in acc[i].interest THEN MutatePart(acc[i], pe) ELSE acc[i]]

\* accumulator.into_state(): the tuple of inner projections
IntoState(acc) == [i \in 1..Len(acc) |-> acc[i].inner]

\* decision.process(&state)
Process(d, st) ==
    CASE d.kind = "mock_ok"  -> Ok(d.out)
      [] d.kind = "mock_err" -> Err(d.err)
      [] d.kind = "add_item" ->
            IF \E i \in 1..Len(st[1]) : st[1][i] = d.out[1]
            THEN Err(d.err) ELSE Ok(d.out)
      [] d.kind = "withdraw" ->
            IF Len(st[1]) > Len(st[2]) THEN Ok(d.out) ELSE Err(d.err)
      [] d.kind = "audit" ->
            IF Len(st[1]) = Len(st[2]) THEN Ok(d.out) ELSE Err(d.err)
      [] OTHER -> NoResult

\* The caller-supplied inspection closures of then_assert: TRUE when the
\* closure returns, FALSE when it panics.
Inspectors == {"accept", "reject", "one_event"}

InspectorReturns(insp, events) ==
    CASE insp = "accept"    -> TRUE
      [] insp = "reject"    -> FALSE
      [] insp = "one_event" -> Len(events) = 1
      [] OTHER -> FALSE

----------------------------------------------------------------------------
(* Call log *)

Call(name, id, event, arg, err) ==
    [call |-> name, id |-> id, event |-> event, arg |-> arg, err |-> err]

Log(r, entry) == trace' = [trace EXCEPT ![r] = Append(@, entry)]

----------------------------------------------------------------------------
(* Initial states *)

InitRun(active) ==
    /\ pc = [r \in Runs |-> IF r \in active THEN "start" ELSE "unused"]
    /\ history = [r \in Runs |-> <<>>]
    /\ decision = [r \in Runs |-> NoDecision]
    /\ state = [r \in Runs |-> <<>>]
    /\ idx = [r \in Runs |-> 0]
    /\ result = [r \in Runs |-> NoResult]
    /\ trace = [r \in Runs |-> <<>>]

Init == InitRun({1})

InitPair == InitRun(Runs)

----------------------------------------------------------------------------
(* TestHarness::given *)

Given(r, h) ==
    /\ pc[r] = "start"
    /\ history' = [history EXCEPT ![r] = h]
    /\ pc' = [pc EXCEPT ![r] = "Given"]
    /\ Log(r, Call("given", 0, "-", h, "-"))
    /\ UNCHANGED <<decision, state, idx, result>>

----------------------------------------------------------------------------
(* TestHarnessStep<E, Given>::when *)

\* mutant: zero-based ids (the `+ 1` dropped)
NextIdZeroBased(i) == i

\* (id + 1) as i64, for the enumerate() index id
NextId(i) == i + 1

\* mutant: the loop stops after the first event
LoopDoneAfterFirst(r) == idx[r] = Len(history[r]) \/ idx[r] >= 1

\* the iterator over self.history is exhausted
LoopDone(r) == idx[r] = Len(history[r])

\* mutant: process is handed a default state instead of the folded one
ProcessArgDefault(r) == [i \in 1..Len(state[r]) |-> <<>>]

\* &state.into_state(): the argument of process
ProcessArg(r) == IntoState(state[r])

\* mutant: the accumulator of an earlier run is reused when one exists
WhenStateQueryCached(r, d) ==
    /\ pc[r] = "Given"
    /\ decision' = [decision EXCEPT ![r] = d]
    /\ state' = [state EXCEPT ![r] =
                    IF \E o \in Runs \ {r} : Len(state[o]) = Len(StateQuery(d))
                    THEN state[CHOOSE o \in Runs \ {r} : Len(state[o]) = Len(StateQuery(d))]
                    ELSE IntoStatePart(StateQuery(d))]
    /\ idx' = [idx EXCEPT ![r] = 0]
    /\ pc' = [pc EXCEPT ![r] = "fold"]
    /\ trace' = [trace EXCEPT ![r] =
                    @ \o << Call("when", 0, "-", <<>>, "-"),
                            Call("state_query", 0, "-", <<>>, "-") >>]
    /\ UNCHANGED <<history, result>>

\* line 59: let mut state = decision.state_query().into_state_part();
WhenStateQuery(r, d) ==
    /\ pc[r] = "Given"
    /\ decision' = [decision EXCEPT ![r] = d]
    /\ state' = [state EXCEPT ![r] = IntoStatePart(StateQuery(d))]
    /\ idx' = [idx EXCEPT ![r] = 0]
    /\ pc' = [pc EXCEPT ![r] = "fold"]
    /\ trace' = [trace EXCEPT ![r] =
                    @ \o << Call("when", 0, "-", <<>>, "-"),
                            Call("state_query", 0, "-", <<>>, "-") >>]
    /\ UNCHANGED <<history, result>>

\* mutant: the state query is asked again for every event
WhenMutateRequery(r) ==
    /\ pc[r] = "fold"
    /\ ~LoopDone(r)
    /\ LET pe == PersistedEvent(NextId(idx[r]), history[r][idx[r] + 1])
       IN  /\ state' = [state EXCEPT ![r] = MutateAll(@, pe)]
           /\ trace' = [trace EXCEPT ![r] =
                    @ \o << Call("state_query", 0, "-", <<>>, "-"),
                            Call("mutate_all", pe.id, pe.event, <<>>, "-") >>]
    /\ idx' = [idx EXCEPT ![r] = @ + 1]
    /\ UNCHANGED <<pc, history, decision, result>>

\* mutant: an event equal to the one before it is skipped (dedup)
WhenMutateDedup(r) ==
    /\ pc[r] = "fold"
    /\ ~LoopDone(r)
    /\ LET pe == PersistedEvent(NextId(idx[r]), history[r][idx[r] + 1])
       IN  IF idx[r] >= 1 /\ history[r][idx[r]] = pe.event
           THEN UNCHANGED <<state, trace>>
           ELSE /\ state' = [state EXCEPT ![r] = MutateAll(@, pe)]
                /\ Log(r, Call("mutate_all", pe.id, pe.event, <<>>, "-"))
    /\ idx' = [idx EXCEPT ![r] = @ + 1]
    /\ UNCHANGED <<pc, history, decision, result>>

\* lines 60-67: one iteration of the loop over the enumerated history
WhenMutate(r) ==
    /\ pc[r] = "fold"
    /\ ~LoopDone(r)
    /\ LET pe == PersistedEvent(NextId(idx[r]), history[r][idx[r] + 1])
       IN  /\ state' = [state EXCEPT ![r] = MutateAll(@, pe)]
           /\ Log(r, Call("mutate_all", pe.id, pe.event, <<>>, "-"))
    /\ idx' = [idx EXCEPT ![r] = @ + 1]
    /\ UNCHANGED <<pc, history, decision, result>>

\* mutant: the result is unwrapped inside when, which panics on Err
WhenProcessUnwrap(r) ==
    /\ pc[r] = "fold"
    /\ LoopDone(r)
    /\ LET res == Process(decision[r], ProcessArg(r))
       IN  /\ result' = [result EXCEPT ![r] = IF res.tag = "Ok" THEN res ELSE NoResult]
           /\ pc' = [pc EXCEPT ![r] = IF res.tag = "Ok" THEN "When" ELSE "aborted"]
           /\ Log(r, Call("process", 0, "-", ProcessArg(r), "-"))
    /\ state' = [state EXCEPT ![r] = <<>>]
    /\ idx' = [idx EXCEPT ![r] = 0]
    /\ UNCHANGED <<history, decision>>

\* mutant: the When step is built with an empty history
WhenProcessDropsHistory(r) ==
    /\ pc[r] = "fold"
    /\ LoopDone(r)
    /\ result' = [result EXCEPT ![r] = Process(decision[r], ProcessArg(r))]
    /\ pc' = [pc EXCEPT ![r] = "When"]
    /\ Log(r, Call("process", 0, "-", ProcessArg(r), "-"))
    /\ state' = [state EXCEPT ![r] = <<>>]
    /\ idx' = [idx EXCEPT ![r] = 0]
    /\ history' = [history EXCEPT ![r] = <<>>]
    /\ UNCHANGED decision

\* lines 68-72: process is invoked and its result captured; the locals of
\* when are dropped and the history moves into the When step
WhenProcess(r) ==
    /\ pc[r] = "fold"
    /\ LoopDone(r)
    /\ result' = [result EXCEPT ![r] = Process(decision[r], ProcessArg(r))]
    /\ pc' = [pc EXCEPT ![r] = "When"]
    /\ Log(r, Call("process", 0, "-", ProcessArg(r), "-"))
    /\ state' = [state EXCEPT ![r] = <<>>]
    /\ idx' = [idx EXCEPT ![r] = 0]
    /\ UNCHANGED <<history, decision>>

----------------------------------------------------------------------------
(* TestHarnessStep<E, When<R, ERR>>: the terminal assertions *)

\* assert_eq!(Ok(expected.into()), self._step.result)
ThenPasses(expected, res) == ResultEq(Ok(expected), res)

\* mutant: only the variant is checked
ThenErrPassesAnyErr(expected, res) == res.tag = "Err"

\* self._step.result.unwrap_err() followed by assert_eq!(err, expected)
ThenErrPasses(expected, res) == res.tag = "Err" /\ res.error = expected

\* mutant: then borrows the step (&self), which stays usable when it passes
ThenBorrowing(r, expected) ==
    /\ pc[r] = "When"
    /\ pc' = [pc EXCEPT ![r] =
                 IF ThenPasses(expected, result[r]) THEN "When" ELSE "aborted"]
    /\ Log(r, Call("then", 0, "-", expected, "-"))
    /\ UNCHANGED <<history, decision, state, idx, result>>

\* lines 93-96
Then(r, expected) ==
    /\ pc[r] = "When"
    /\ pc' = [pc EXCEPT ![r] =
                 IF ThenPasses(expected, result[r]) THEN "passed" ELSE "aborted"]
    /\ Log(r, Call("then", 0, "-", expected, "-"))
    /\ UNCHANGED <<history, decision, state, idx, result>>

\* mutant: unwrap_or_default, so the inspector also runs on a failure
ThenAssertOrDefault(r, insp) ==
    /\ pc[r] = "When"
    /\ pc' = [pc EXCEPT ![r] =
                 IF InspectorReturns(insp, result[r].events)
                 THEN "passed" ELSE "aborted"]
    /\ trace' = [trace EXCEPT ![r] =
                    @ \o << Call("then_assert", 0, "-", <<>>, insp),
                            Call("inspector", 0, "-", result[r].events, insp) >>]
    /\ UNCHANGED <<history, decision, state, idx, result>>

\* mutant: a panic of the inspector is caught and the run passes
ThenAssertSwallow(r, insp) ==
    /\ pc[r] = "When"
    /\ IF result[r].tag = "Ok"
       THEN /\ pc' = [pc EXCEPT ![r] = "passed"]
            /\ trace' = [trace EXCEPT ![r] =
                    @ \o << Call("then_assert", 0, "-", <<>>, insp),
                            Call("inspector", 0, "-", result[r].events, insp) >>]
       ELSE /\ pc' = [pc EXCEPT ![r] = "aborted"]
            /\ Log(r, Call("then_assert", 0, "-", <<>>, insp))
    /\ UNCHANGED <<history, decision, state, idx, result>>

\* lines 141-144: result.unwrap() panics on Err before the closure is called
ThenAssert(r, insp) ==
    /\ pc[r] = "When"
    /\ IF result[r].tag = "Ok"
       THEN /\ pc' = [pc EXCEPT ![r] =
                         IF InspectorReturns(insp, result[r].events)
                         THEN "passed" ELSE "aborted"]
            /\ trace' = [trace EXCEPT ![r] =
                    @ \o << Call("then_assert", 0, "-", <<>>, insp),
                            Call("inspector", 0, "-", result[r].events, insp) >>]
       ELSE /\ pc' = [pc EXCEPT ![r] = "aborted"]
            /\ Log(r, Call("then_assert", 0, "-", <<>>, insp))
    /\ UNCHANGED <<history, decision, state, idx, result>>

\* mutant: on a mismatch the decision is processed once more before aborting
ThenErrRetrying(r, expected) ==
    /\ pc[r] = "When"
    /\ IF ThenErrPasses(expected, result[r])
       THEN /\ pc' = [pc EXCEPT ![r] = "passed"]
            /\ Log(r, Call("then_err", 0, "-", <<>>, expected))
       ELSE /\ pc' = [pc EXCEPT ![r] = "aborted"]
            /\ trace' = [trace EXCEPT ![r] =
                    @ \o << Call("then_err", 0, "-", <<>>, expected),
                            Call("process", 0, "-", <<>>, "-") >>]
    /\ UNCHANGED <<history, decision, state, idx, result>>

\* lines 155-159
ThenErr(r, expected) ==
    /\ pc[r] = "When"
    /\ pc' = [pc EXCEPT ![r] =
                 IF ThenErrPasses(expected, result[r]) THEN "passed" ELSE "aborted"]
    /\ Log(r, Call("then_err", 0, "-", <<>>, expected))
    /\ UNCHANGED <<history, decision, state, idx, result>>

----------------------------------------------------------------------------
(* Specifications *)

\* given(h).when(d) of run r
Drive(r) ==
    \/ \E h \in Histories : Given(r, h)
    \/ \E d \in Decisions : WhenStateQuery(r, d)
    \/ WhenMutate(r)
    \/ WhenProcess(r)

\* the terminal assertion of run r
Conclude(r) ==
    \/ \E x \in Expectations : Then(r, x)
    \/ \E i \in Inspectors : ThenAssert(r, i)
    \/ \E e \in Errors : ThenErr(r, e)

Next == Drive(1) \/ Conclude(1)

NextPair == \E r \in Runs : Drive(r)

\* one harness run
Spec == Init /\ [][Next]_vars

\* two separate harness runs given(h).when(d), interleaved in any order
SpecPair == InitPair /\ [][NextPair]_vars

----------------------------------------------------------------------------
(* Reading the call log *)

Terminals == {"then", "then_assert", "then_err"}

\* the positions in trace[r] of the calls named in S
CallIdx(r, S) == {i \in 1..Len(trace[r]) : trace[r][i].call \in S}

\* the names of the calls of trace[r] that are named in S, in order
CallNames(r, S) ==
    LET sel == SelectSeq(trace[r], LAMBDA c : c.call \in S)
    IN  [i \in 1..Len(sel) |-> sel[i].call]

\* the persisted events handed to mutate_all by run r, in order
Folded(r) ==
    LET sel == SelectSeq(trace[r], LAMBDA c : c.call = "mutate_all")
    IN  [i \in 1..Len(sel) |-> <<sel[i].id, sel[i].event>>]

\* when has returned in run r
WhenReturned(r) == CallIdx(r, {"process"}) # {} /\ pc[r] # "fold"

\* the terminal assertion of run r, once it has run
TerminalCall(r) == trace[r][CHOOSE i \in CallIdx(r, Terminals) : TRUE]

\* the state process was invoked with in run r
ProcessedState(r) == trace[r][CHOOSE i \in CallIdx(r, {"process"}) : TRUE].arg

\* reference fold: events h[k..] applied to acc in order, numbered by position
RECURSIVE FoldFrom(_, _, _)
FoldFrom(acc, h, k) ==
    IF k > Len(h) THEN acc
    ELSE FoldFrom(MutateAll(acc, PersistedEvent(k, h[k])), h, k + 1)

----------------------------------------------------------------------------
(* Claims *)

\* C1: the harness calls of every run form a prefix of given, when, <one
\* terminal assertion>: no assertion without exactly one given followed by
\* exactly one when, no phase entered twice, nothing after when or after a
\* terminal assertion on the same step.
C1_PhaseOrder ==
    \A r \in Runs :
        LET api == CallNames(r, {"given", "when"} \cup Terminals)
        IN  /\ Len(api) <= 3
            /\ Len(api) >= 1 => api[1] = "given"
            /\ Len(api) >= 2 => api[2] = "when"
            /\ Len(api) >= 3 => api[3] \in Terminals
            /\ pc[r] \in {"passed", "aborted"} => Len(api) = 3
            /\ pc[r] \in {"fold", "When"} => Len(api) = 2
            /\ pc[r] = "Given" => Len(api) = 1

C1_Witness ==
    /\ pc[1] = "passed"
    /\ CallNames(1, {"given", "when"} \cup Terminals) = <<"given", "when", "then_assert">>

\* C2: the k-th event applied to the accumulator is the k-th event of the
\* history with sequence number k, and once when has returned exactly
\* Len(history) events have been applied.
C2_SequenceNumbers ==
    \A r \in Runs :
        LET f == Folded(r)
        IN  /\ Len(f) <= Len(history[r])
            /\ \A k \in 1..Len(f) : f[k] = <<k, history[r][k]>>
            /\ WhenReturned(r) => Len(f) = Len(history[r])

C2_Witness ==
    /\ pc[1] = "When"
    /\ history[1] = <<"b", "a">>
    /\ Folded(1) = << <<1, "b">>, <<2, "a">> >>

\* C3: state_query is invoked at most once, before every mutate_all and
\* before process, and exactly once in a run whose when has started; the
\* empty history included.
C3_StateQueryOnceFirst ==
    \A r \in Runs :
        LET q == CallIdx(r, {"state_query"})
        IN  /\ Cardinality(q) <= 1
            /\ \A i \in CallIdx(r, {"mutate_all", "process"}) : \E j \in q : j < i
            /\ pc[r] \in {"fold", "When", "passed", "aborted"} => Cardinality(q) = 1

C3_Witness ==
    /\ pc[1] = "When"
    /\ history[1] = <<>>
    /\ Cardinality(CallIdx(1, {"state_query"})) = 1

\* C4: process is invoked at most once, exactly once when `when` has
\* returned, after all Len(history) events were applied and none after it,
\* with the state converted from the fully folded accumulator; whatever the
\* variant it returns.
C4_ProcessOnceAfterFold ==
    \A r \in Runs :
        LET p == CallIdx(r, {"process"})
        IN  /\ Cardinality(p) <= 1
            /\ pc[r] \in {"When", "passed", "aborted"} => Cardinality(p) = 1
            /\ \A i \in p :
                /\ Cardinality({j \in CallIdx(r, {"mutate_all"}) : j < i}) = Len(history[r])
                /\ \A j \in CallIdx(r, {"mutate_all"}) : j < i
                /\ trace[r][i].arg =
                     IntoState(FoldFrom(IntoStatePart(StateQuery(decision[r])), history[r], 1))

C4_Witness ==
    /\ pc[1] = "When"
    /\ result[1].tag = "Err"
    /\ Len(history[1]) = 2
    /\ ProcessedState(1) = << <<"a">>, <<"b">> >>

\* C5: then(expected) passes exactly when the captured result is the success
\* variant holding the sequence expected; it aborts otherwise.
C5_ThenExact ==
    \A r \in Runs :
        (CallIdx(r, {"then"}) # {}) =>
            /\ pc[r] \in {"passed", "aborted"}
            /\ pc[r] = "passed" <=>
                 /\ result[r].tag = "Ok"
                 /\ result[r].events = TerminalCall(r).arg

C5_Witness ==
    /\ pc[1] = "aborted"
    /\ result[1] = Ok(<<"a", "b">>)
    /\ CallIdx(1, {"then"}) # {}
    /\ TerminalCall(1).arg = <<"b", "a">>

\* C6: then_err(expected) passes exactly when the captured result is the
\* failure variant holding the error expected; it aborts otherwise.
C6_ThenErrExact ==
    \A r \in Runs :
        (CallIdx(r, {"then_err"}) # {}) =>
            /\ pc[r] \in {"passed", "aborted"}
            /\ pc[r] = "passed" <=>
                 /\ result[r].tag = "Err"
                 /\ result[r].error = TerminalCall(r).err

C6_Witness ==
    /\ pc[1] = "aborted"
    /\ result[1] = Err("e1")
    /\ CallIdx(1, {"then_err"}) # {}
    /\ TerminalCall(1).err = "e2"

\* C7: then_assert on a failure result aborts and the inspector is never
\* invoked.
C7_InspectorGated ==
    \A r \in Runs :
        (result[r].tag = "Err" /\ CallIdx(r, {"then_assert"}) # {}) =>
            /\ pc[r] = "aborted"
            /\ CallIdx(r, {"inspector"}) = {}

C7_Witness ==
    /\ result[1].tag = "Err"
    /\ CallIdx(1, {"then_assert"}) # {}
    /\ TerminalCall(1).err = "accept"
    /\ pc[1] = "aborted"

\* C8: two separate runs given the same history and the same decision
\* capture the same result and hand process the same state.
C8_Determinism ==
    \A r1, r2 \in Runs :
        (/\ WhenReturned(r1) /\ WhenReturned(r2)
         /\ history[r1] = history[r2]
         /\ decision[r1] = decision[r2]) =>
            /\ result[r1] = result[r2]
            /\ ProcessedState(r1) = ProcessedState(r2)

C8_Witness ==
    /\ WhenReturned(1) /\ WhenReturned(2)
    /\ history[1] = <<"b", "a">> /\ history[2] = <<"b", "a">>
    /\ decision[1].kind = "add_item" /\ decision[2] = decision[1]
    /\ result[1] = Err("e1") /\ result[2] = Err("e1")

\* C9: with an empty history no event is applied and process receives the
\* state converted from the accumulator the state query produced: every
\* sub-state holds its initial value.
C9_EmptyHistory ==
    \A r \in Runs :
        (WhenReturned(r) /\ history[r] = <<>>) =>
            /\ CallIdx(r, {"mutate_all"}) = {}
            /\ Len(ProcessedState(r)) = Len(StateQuery(decision[r]))
            /\ \A i \in 1..Len(ProcessedState(r)) :
                  ProcessedState(r)[i] = StateQuery(decision[r])[i][2]

C9_Witness ==
    /\ WhenReturned(1)
    /\ history[1] = <<>>
    /\ ProcessedState(1) = << <<"b">> >>

\* C10: once process has been invoked, when has returned without aborting
\* (a run aborts only in a terminal assertion) and the result it holds is
\* the value process returned for the state it was given.
C10_ErrorIsCaptured ==
    \A r \in Runs :
        (CallIdx(r, {"process"}) # {}) =>
            /\ pc[r] \in {"When", "passed", "aborted"}
            /\ pc[r] = "aborted" => CallIdx(r, Terminals) # {}
            /\ result[r] = Process(decision[r], ProcessedState(r))

C10_Witness ==
    /\ pc[1] = "When"
    /\ result[1] = Err("e2")
    /\ decision[1].kind = "withdraw"

\* the events of h[1..n] whose variant is in interest, each paired with its
\* position in h
RECURSIVE Observed(_, _, _)
Observed(h, n, interest) ==
    IF n = 0 THEN <<>>
    ELSE IF h[n] \in interest
         THEN Append(Observed(h, n - 1, interest), <<n, h[n]>>)
         ELSE Observed(h, n - 1, interest)

\* the number of calls of run r named in S
CallCount(r, S) == Cardinality(CallIdx(r, S))

\* the terminal assertion of run r found its expectation not met
Mismatch(r) ==
    LET t == TerminalCall(r)
    IN  CASE t.call = "then" ->
                ~(result[r].tag = "Ok" /\ result[r].events = t.arg)
          [] t.call = "then_err" ->
                ~(result[r].tag = "Err" /\ result[r].error = t.err)
          [] t.call = "then_assert" ->
                ~(result[r].tag = "Ok" /\ InspectorReturns(t.err, result[r].events))
          [] OTHER -> FALSE

\* C11: the step that performs a terminal assertion ends the run passed or
\* aborted, aborted on a mismatch, and leaves the numbers of state_query,
\* mutate_all and process invocations and the captured result as they were;
\* a run that has ended takes no further step (no retry, no recovery).
C11_NoRetry ==
    [][\A r \in Runs :
        /\ (CallIdx(r, Terminals) = {} /\ CallIdx(r, Terminals)' # {}) =>
              /\ pc'[r] \in {"passed", "aborted"}
              /\ Mismatch(r)' => pc'[r] = "aborted"
              /\ CallCount(r, {"state_query"})' = CallCount(r, {"state_query"})
              /\ CallCount(r, {"mutate_all"})' = CallCount(r, {"mutate_all"})
              /\ CallCount(r, {"process"})' = CallCount(r, {"process"})
              /\ result'[r] = result[r]
        /\ pc[r] \in {"passed", "aborted"} =>
              /\ pc'[r] = pc[r]
              /\ trace'[r] = trace[r]]_vars

C11_Witness ==
    /\ pc[1] = "aborted"
    /\ result[1].tag = "Ok"
    /\ CallIdx(1, {"then_err"}) # {}
    /\ CallCount(1, {"process"}) = 1
    /\ CallCount(1, {"mutate_all"}) = 2

\* C12: while folding, every sub-state has observed exactly the events of
\* the history folded so far whose variant it is interested in, in history
\* order, each with its position in the full history; and process receives,
\* per sub-state, the initial items followed by those events.
C12_BroadcastFold ==
    \A r \in Runs :
        /\ pc[r] = "fold" =>
              /\ Len(state[r]) = Len(StateQuery(decision[r]))
              /\ \A i \in 1..Len(state[r]) :
                    state[r][i].seen =
                        Observed(history[r], idx[r], StateQuery(decision[r])[i][1])
        /\ WhenReturned(r) =>
              \A i \in 1..Len(StateQuery(decision[r])) :
                 LET q == StateQuery(decision[r])[i]
                     o == Observed(history[r], Len(history[r]), q[1])
                 IN  ProcessedState(r)[i] = q[2] \o [k \in 1..Len(o) |-> o[k][2]]

C12_Witness ==
    /\ pc[1] = "fold"
    /\ idx[1] = 2
    /\ history[1] = <<"b", "a">>
    /\ decision[1].kind = "audit"
    /\ state[1][1].seen = << <<1, "b">>, <<2, "a">> >>
    /\ state[1][2].seen = << <<2, "a">> >>

\* C13: every iteration of the fold succeeds (the run stays in the fold, one
\* event further) and leaves every sub-state that is not interested in the
\* event as it was; when the history is exhausted when returns, having
\* applied all of it.
C13_FoldTotal ==
    [][\A r \in Runs :
        (pc[r] = "fold" /\ trace'[r] # trace[r]) =>
            IF idx[r] < Len(history[r])
            THEN /\ pc'[r] = "fold"
                 /\ idx'[r] = idx[r] + 1
                 /\ Len(state'[r]) = Len(state[r])
                 /\ \A i \in 1..Len(state[r]) :
                       history[r][idx[r] + 1] \notin state[r][i].interest =>
                           state'[r][i] = state[r][i]
            ELSE /\ pc'[r] = "When"
                 /\ CallCount(r, {"mutate_all"})' = Len(history[r])]_vars

C13_Witness ==
    /\ pc[1] = "fold"
    /\ decision[1].kind = "audit"
    /\ history[1] = <<"b", "b">>
    /\ idx[1] = 2
    /\ state[1][1].applied = 2
    /\ state[1][2] = SubState({"a"}, <<>>)
    /\ state[1][3] = SubState({}, <<"a">>)

\* C14: from given on, through when and the terminal assertion, the history
\* the step carries is the history supplied to given.
C14_HistoryKept ==
    \A r \in Runs :
        (CallIdx(r, {"given"}) # {}) =>
            /\ trace[r][1].call = "given"
            /\ Len(history[r]) = Len(trace[r][1].arg)
            /\ \A k \in 1..Len(history[r]) : history[r][k] = trace[r][1].arg[k]

C14_Witness ==
    /\ pc[1] = "aborted"
    /\ CallCount(1, {"mutate_all"}) = 2
    /\ trace[1][1].arg = <<"a", "b">>
    /\ history[1] = <<"a", "b">>

\* C15: then_assert on a success result invokes the inspector exactly once,
\* with the captured event sequence, and the run passes exactly when the
\* inspector returns.
C15_InspectorOnSuccess ==
    \A r \in Runs :
        (result[r].tag = "Ok" /\ CallIdx(r, {"then_assert"}) # {}) =>
            /\ CallCount(r, {"inspector"}) = 1
            /\ \A i \in CallIdx(r, {"inspector"}) :
                  /\ trace[r][i].arg = result[r].events
                  /\ \A j \in CallIdx(r, {"then_assert"}) : j < i
            /\ pc[r] \in {"passed", "aborted"}
            /\ pc[r] = "passed" <=>
                  InspectorReturns(TerminalCall(r).err, result[r].events)

C15_Witness ==
    /\ pc[1] = "aborted"
    /\ result[1] = Ok(<<"b", "a">>)
    /\ CallIdx(1, {"then_assert"}) # {}
    /\ TerminalCall(1).err = "one_event"
    /\ CallCount(1, {"inspector"}) = 1

\* C16: once when has returned, every position of the history has its own
\* application to the accumulator: as many mutate_all calls as the history
\* is long, with pairwise distinct sequence numbers, equal-valued events at
\* different positions included.
C16_NoDedup ==
    \A r \in Runs :
        WhenReturned(r) =>
            /\ CallCount(r, {"mutate_all"}) = Len(history[r])
            /\ \A i, j \in CallIdx(r, {"mutate_all"}) :
                  i # j => trace[r][i].id # trace[r][j].id
            /\ \A k \in 1..Len(history[r]) :
                  Cardinality({i \in CallIdx(r, {"mutate_all"}) :
                                  trace[r][i].event = history[r][k]})
                    = Cardinality({m \in 1..Len(history[r]) :
                                  history[r][m] = history[r][k]})

C16_Witness ==
    /\ WhenReturned(1)
    /\ history[1] = <<"a", "a">>
    /\ Folded(1) = << <<1, "a">>, <<2, "a">> >>
    /\ decision[1].kind = "add_item"
    /\ ProcessedState(1) = << <<"a", "a">> >>

====
